---- MODULE Spec2Model ----
(***************************************************************************)
(* Model of backend/app.py: the POST /api/route_weather handler and        *)
(* get_weather_data / log_to_mongodb.                                      *)
(*                                                                         *)
(* Coordinates are fixed-point integers in units of 0.00001 degree, so     *)
(* round(x, 4) becomes rounding to the nearest multiple of 10.             *)
(***************************************************************************)
EXTENDS Integers, Sequences, FiniteSets

VARIABLES
    pc,               \* position of the handler
    data,             \* request.get_json()
    gmaps,            \* module global: TRUE when the Google Maps client exists
    WEATHER_API_KEY,  \* module global: TRUE when the key is a non-empty string
    db,               \* module global: TRUE when db is not None
    legs,             \* directions_result[0]['legs']
    waypoints,        \* candidate list built at lines 224-256
    unique_waypoints, \* list built at lines 259-265
    selected,         \* list the weather loop iterates over (line 275 / 278)
    weather_data,     \* list built at lines 278-285
    status,           \* HTTP status of the response (0 while none was sent)
    error,            \* 'error' field of the response body
    routing_calls,    \* number of gmaps.directions calls issued
    weather_calls,    \* requests.get calls issued to the weather provider
    query_logs        \* documents inserted in db['query_logs']

vars == <<pc, data, gmaps, WEATHER_API_KEY, db, legs, waypoints,
          unique_waypoints, selected, weather_data, status, error,
          routing_calls, weather_calls, query_logs>>

----------------------------------------------------------------------------
(* Bounds *)

MaxLegs == 2
MaxSteps == 2
MaxFail == 2
ReduceMaxLegs == 2
ReduceMaxSteps == 10

----------------------------------------------------------------------------
(* Python helpers *)

Max(a, b) == IF a >= b THEN a ELSE b

Last(s) == s[Len(s)]

\* list(range(start, stop, step)) for step > 0
Range(start, stop, step) ==
    IF stop <= start THEN <<>>
    ELSE [k \in 1..(((stop - start - 1) \div step) + 1) |-> start + (k - 1) * step]

\* str.strip() on a string given as a sequence of characters
RECURSIVE lstrip(_)
lstrip(s) == IF s # <<>> /\ Head(s) = " " THEN lstrip(Tail(s)) ELSE s

RECURSIVE rstrip(_)
rstrip(s) ==
    IF s # <<>> /\ Last(s) = " " THEN rstrip(SubSeq(s, 1, Len(s) - 1)) ELSE s

strip(s) == rstrip(lstrip(s))

\* round(x, 4) of a coordinate in units of 0.00001: nearest multiple of
\* 0.0001 (result in units of 0.0001), an exact tie going to the even one
round4(x) ==
    LET q == x \div 10
        r == x % 10
    IN  IF r < 5 THEN q
        ELSE IF r > 5 THEN q + 1
        ELSE IF q % 2 = 0 THEN q ELSE q + 1

\* coord_key = (round(wp['lat'], 4), round(wp['lon'], 4))
coord_key(wp) == <<round4(wp.lat), round4(wp.lon)>>

----------------------------------------------------------------------------
(* Request bodies *)

Absent == [kind |-> "absent", chars |-> <<>>]
NonString == [kind |-> "nonstring", chars |-> <<>>]
Str(s) == [kind |-> "str", chars |-> s]

Texts == {<<>>, <<" ">>, <<" ", " ">>, <<"a">>, <<" ", "a", " ">>}

FieldValues == {Absent, NonString} \cup {Str(s) : s \in Texts}

\* present = FALSE: get_json() returned None; extra: the object has a key
\* other than the two addresses
Bodies ==
    {[present |-> FALSE, start_address |-> Absent, end_address |-> Absent,
      extra |-> FALSE]}
    \cup [present : {TRUE}, start_address : FieldValues,
          end_address : FieldValues, extra : BOOLEAN]

\* truth value of the parsed body: None and the empty dict are falsy
Truthy(d) ==
    d.present /\ (d.extra \/ d.start_address # Absent \/ d.end_address # Absent)

\* data.get(key, '') : the default only applies when the key is absent
get(field) == IF field = Absent THEN Str(<<>>) ELSE field

Respond(code, msg) == [status |-> code, error |-> msg]

\* mutant of validate: the addresses are compared without strip()
validate_nostrip(d) ==
    IF ~Truthy(d) THEN Respond(400, "No data provided")
    ELSE IF get(d.start_address).kind # "str" \/ get(d.end_address).kind # "str"
    THEN Respond(500, "Internal server error. Please try again later.")
    ELSE IF get(d.start_address).chars = <<>> \/ get(d.end_address).chars = <<>>
    THEN Respond(400, "Both start_address and end_address are required")
    ELSE IF ~gmaps
    THEN Respond(503, "Google Maps API not configured. Please set GOOGLE_MAPS_KEY environment variable.")
    ELSE Respond(0, "")

\* lines 172-191; .strip() on a non-string raises AttributeError, which the
\* handler's catch-all (lines 308-313) turns into a 500; status 0: go on
validate(d) ==
    IF ~Truthy(d) THEN Respond(400, "No data provided")
    ELSE IF get(d.start_address).kind # "str" \/ get(d.end_address).kind # "str"
    THEN Respond(500, "Internal server error. Please try again later.")
    ELSE IF strip(get(d.start_address).chars) = <<>>
            \/ strip(get(d.end_address).chars) = <<>>
    THEN Respond(400, "Both start_address and end_address are required")
    ELSE IF ~gmaps
    THEN Respond(503, "Google Maps API not configured. Please set GOOGLE_MAPS_KEY environment variable.")
    ELSE Respond(0, "")

----------------------------------------------------------------------------
(* Routes the directions provider can return *)

\* the p-th point along the route, p = 0 being the origin; inc is the
\* <<latitude, longitude>> increment from one point to the next
Point(p, inc) == [lat |-> inc[1] * p - 8, lng |-> inc[2] * p + 2]

Increments == {<<10, 0>>, <<0, 10>>, <<4, 0>>, <<4, 4>>}

\* where the destination lies: past the last step, at the end of the last
\* step, back at the origin, or at the end of the first step
EndPlaces == {"beyond", "last_step", "origin", "first_step"}

Shapes(maxLegs, maxSteps) ==
    UNION {[1..k -> 0..maxSteps] : k \in 1..maxLegs}

\* number of steps in the first n legs of a shape
RECURSIVE StepsBefore(_, _)
StepsBefore(shape, n) ==
    IF n = 0 THEN 0 ELSE StepsBefore(shape, n - 1) + shape[n]

EndPoint(shape, inc, endAt) ==
    LET total == StepsBefore(shape, Len(shape))
    IN  CASE endAt = "beyond" -> Point(total + 1, inc)
          [] endAt = "last_step" -> Point(total, inc)
          [] endAt = "origin" -> Point(0, inc)
          [] endAt = "first_step" -> Point(1, inc)

Leg(shape, inc, endAt, l) ==
    LET base == StepsBefore(shape, l - 1)
    IN  [start_address |-> [kind |-> "start_address", leg |-> l, idx |-> 0],
         start_location |-> Point(base, inc),
         end_address |-> [kind |-> "end_address", leg |-> l, idx |-> 0],
         end_location |-> IF l = Len(shape) THEN EndPoint(shape, inc, endAt)
                          ELSE Point(base + shape[l], inc),
         steps |-> [i \in 1..shape[l] |->
                      [html_instructions |->
                           [kind |-> "step", leg |-> l, idx |-> i - 1],
                       end_location |-> Point(base + i, inc)]]]

Route(shape, inc, endAt) == [l \in 1..Len(shape) |-> Leg(shape, inc, endAt, l)]

Routes(maxLegs, maxSteps) ==
    {Route(shape, inc, endAt) :
        shape \in Shapes(maxLegs, maxSteps), inc \in Increments,
        endAt \in EndPlaces}

NoRoute == <<>>

----------------------------------------------------------------------------
(* Waypoint extraction, lines 220-275 *)

\* mutant of step_interval: the leg is cut in 6 parts instead of 5
step_interval_sixth(n) == IF n > 5 THEN Max(1, n \div 6) ELSE n

\* line 239
step_interval(n) == IF n > 5 THEN Max(1, n \div 5) ELSE n

\* lines 241-248 for one leg; range() raises ValueError when the interval is 0
leg_raises(leg) == step_interval(Len(leg.steps)) = 0

leg_waypoints(leg) ==
    LET steps == leg.steps
        idx == Range(0, Len(steps), step_interval(Len(steps)))
    IN  [k \in 1..Len(idx) |->
            [address |-> steps[idx[k] + 1].html_instructions,
             lat |-> steps[idx[k] + 1].end_location.lat,
             lon |-> steps[idx[k] + 1].end_location.lng]]

\* lines 236-248: the loop over the legs
RECURSIVE legs_waypoints(_)
legs_waypoints(ls) ==
    IF ls = <<>> THEN <<>>
    ELSE leg_waypoints(Head(ls)) \o legs_waypoints(Tail(ls))

flatten_raises(ls) == \E l \in 1..Len(ls) : leg_raises(ls[l])

\* lines 224-256
flatten(ls) ==
    <<[address |-> ls[1].start_address,
       lat |-> ls[1].start_location.lat,
       lon |-> ls[1].start_location.lng]>>
    \o legs_waypoints(ls)
    \o <<[address |-> Last(ls).end_address,
          lat |-> Last(ls).end_location.lat,
          lon |-> Last(ls).end_location.lng]>>

\* mutant of dedup: a waypoint is only compared with the one kept last
RECURSIVE dedup_adjacent_from(_, _)
dedup_adjacent_from(wps, acc) ==
    IF wps = <<>> THEN acc
    ELSE IF acc # <<>> /\ coord_key(Last(acc)) = coord_key(Head(wps))
         THEN dedup_adjacent_from(Tail(wps), acc)
         ELSE dedup_adjacent_from(Tail(wps), Append(acc, Head(wps)))

dedup_adjacent(wps) == dedup_adjacent_from(wps, <<>>)

\* lines 261-265: the loop body, seen being seen_coords
RECURSIVE dedup_from(_, _, _)
dedup_from(wps, seen, acc) ==
    IF wps = <<>> THEN acc
    ELSE IF coord_key(Head(wps)) \in seen
         THEN dedup_from(Tail(wps), seen, acc)
         ELSE dedup_from(Tail(wps), seen \cup {coord_key(Head(wps))},
                         Append(acc, Head(wps)))

\* lines 259-265
dedup(wps) == dedup_from(wps, {}, <<>>)

\* mutant of limit: the interior walk runs up to and including the last index
limit_through_last(u) ==
    IF Len(u) > 10
    THEN LET step == Len(u) \div 9
             idx == Range(step, Len(u), step)
         IN  <<u[1]>> \o [k \in 1..Len(idx) |-> u[idx[k] + 1]] \o <<Last(u)>>
    ELSE u

\* lines 268-275
limit(u) ==
    IF Len(u) > 10
    THEN LET step == Len(u) \div 9
             idx == Range(step, Len(u) - 1, step)
         IN  <<u[1]>> \o [k \in 1..Len(idx) |-> u[idx[k] + 1]] \o <<Last(u)>>
    ELSE u

----------------------------------------------------------------------------
(* Weather lookup, lines 68-123 *)

\* what requests.get / raise_for_status / the JSON accessors can do:
\* "timeout" and "http_error" raise a RequestException, "malformed" is a
\* body without the expected keys (KeyError)
Responses == {"ok", "timeout", "http_error", "malformed"}

Payload ==
    [temp |-> 21, main |-> "Clouds", description |-> "overcast clouds",
     humidity |-> 60, speed |-> 3]

NotConfigured ==
    [error |-> "Weather API key not configured", temperature |-> "N/A",
     conditions |-> "N/A", description |-> "Weather API key not available"]

FetchFailed ==
    [error |-> "Unable to fetch weather data", temperature |-> "N/A",
     conditions |-> "Error fetching weather data"]

ProcessFailed ==
    [error |-> "Unable to process weather data", temperature |-> "N/A",
     conditions |-> "Error processing weather data"]

Observation(d) ==
    [temperature |-> <<d.temp, "C">>, conditions |-> d.main,
     description |-> d.description, humidity |-> <<d.humidity, "%">>,
     wind_speed |-> <<d.speed, "m/s">>]

Call(lat, lon, resp) == [lat |-> lat, lon |-> lon, response |-> resp]

\* mutant of get_weather_data: the generic except clause builds the
\* observation from defaults instead of returning the failure marker
get_weather_data_lenient(lat, lon, resp) ==
    IF ~WEATHER_API_KEY THEN [weather |-> NotConfigured, calls |-> <<>>]
    ELSE [weather |-> CASE resp = "ok" -> Observation(Payload)
                        [] resp \in {"timeout", "http_error"} -> FetchFailed
                        [] resp = "malformed" -> Observation(Payload),
          calls |-> <<Call(lat, lon, resp)>>]

\* mutant of get_weather_data: the key is not checked before the request
get_weather_data_nokeycheck(lat, lon, resp) ==
    [weather |-> CASE ~WEATHER_API_KEY -> NotConfigured
                   [] resp = "ok" -> Observation(Payload)
                   [] resp \in {"timeout", "http_error"} -> FetchFailed
                   [] resp = "malformed" -> ProcessFailed,
     calls |-> <<Call(lat, lon, resp)>>]

\* lines 68-123: the returned dict and the requests.get calls issued
get_weather_data(lat, lon, resp) ==
    IF ~WEATHER_API_KEY THEN [weather |-> NotConfigured, calls |-> <<>>]
    ELSE [weather |-> CASE resp = "ok" -> Observation(Payload)
                        [] resp \in {"timeout", "http_error"} -> FetchFailed
                        [] resp = "malformed" -> ProcessFailed,
          calls |-> <<Call(lat, lon, resp)>>]

\* lines 125-141: inserted is whether insert_one succeeded
log_to_mongodb(logs, query_data, inserted) ==
    IF db /\ inserted THEN Append(logs, query_data) ELSE logs

Failures(calls) == Cardinality({i \in 1..Len(calls) : calls[i].response # "ok"})

----------------------------------------------------------------------------
(* The handler *)

Init ==
    /\ pc = "recv"
    /\ data \in Bodies
    /\ gmaps \in BOOLEAN
    /\ WEATHER_API_KEY \in BOOLEAN
    /\ db \in BOOLEAN
    /\ legs = NoRoute
    /\ waypoints = <<>>
    /\ unique_waypoints = <<>>
    /\ selected = <<>>
    /\ weather_data = <<>>
    /\ status = 0
    /\ error = ""
    /\ routing_calls = 0
    /\ weather_calls = <<>>
    /\ query_logs = <<>>

\* lines 172-191
Validate ==
    /\ pc = "recv"
    /\ LET r == validate(data)
       IN  IF r.status = 0
           THEN pc' = "directions" /\ UNCHANGED <<status, error>>
           ELSE pc' = "done" /\ status' = r.status /\ error' = r.error
    /\ UNCHANGED <<data, gmaps, WEATHER_API_KEY, db, legs, waypoints,
                   unique_waypoints, selected, weather_data, routing_calls,
                   weather_calls, query_logs>>

DirectionsOutcomes(maxLegs, maxSteps) ==
    {[kind |-> k, legs |-> NoRoute] : k \in {"ApiError", "Exception", "empty"}}
    \cup {[kind |-> "route", legs |-> r] : r \in Routes(maxLegs, maxSteps)}

\* lines 194-222
GetDirections ==
    /\ pc = "directions"
    /\ routing_calls' = routing_calls + 1
    /\ \E o \in DirectionsOutcomes(MaxLegs, MaxSteps) :
          /\ legs' = o.legs
          /\ CASE o.kind = "route" ->
                    pc' = "flatten" /\ UNCHANGED <<status, error>>
               [] o.kind = "empty" ->
                    /\ pc' = "done"
                    /\ status' = 404
                    /\ error' = "No route found between the specified addresses"
               [] o.kind = "ApiError" ->
                    /\ pc' = "done"
                    /\ status' = 500
                    /\ error' = "Google Maps API error. Please check your API key and try again."
               [] o.kind = "Exception" ->
                    /\ pc' = "done"
                    /\ status' = 500
                    /\ error' = "Error calculating route. Please verify your addresses and try again."
    /\ UNCHANGED <<data, gmaps, WEATHER_API_KEY, db, waypoints,
                   unique_waypoints, selected, weather_data, weather_calls,
                   query_logs>>

\* lines 224-256; the ValueError of range() is caught at lines 308-313
Flatten ==
    /\ pc = "flatten"
    /\ IF flatten_raises(legs)
       THEN /\ pc' = "done"
            /\ status' = 500
            /\ error' = "Internal server error. Please try again later."
            /\ UNCHANGED waypoints
       ELSE /\ pc' = "dedup"
            /\ waypoints' = flatten(legs)
            /\ UNCHANGED <<status, error>>
    /\ UNCHANGED <<data, gmaps, WEATHER_API_KEY, db, legs, unique_waypoints,
                   selected, weather_data, routing_calls, weather_calls,
                   query_logs>>

\* lines 258-265
Dedup ==
    /\ pc = "dedup"
    /\ unique_waypoints' = dedup(waypoints)
    /\ pc' = "limit"
    /\ UNCHANGED <<data, gmaps, WEATHER_API_KEY, db, legs, waypoints, selected,
                   weather_data, status, error, routing_calls, weather_calls,
                   query_logs>>

\* lines 267-275
Limit ==
    /\ pc = "limit"
    /\ selected' = limit(unique_waypoints)
    /\ pc' = "weather"
    /\ UNCHANGED <<data, gmaps, WEATHER_API_KEY, db, legs, waypoints,
                   unique_waypoints, weather_data, status, error,
                   routing_calls, weather_calls, query_logs>>

\* lines 278-285: one iteration of the loop
FetchWeather ==
    /\ pc = "weather"
    /\ Len(weather_data) < Len(selected)
    /\ \E resp \in Responses :
          /\ resp # "ok" => Failures(weather_calls) < MaxFail
          /\ LET waypoint == selected[Len(weather_data) + 1]
                 r == get_weather_data(waypoint.lat, waypoint.lon, resp)
             IN  /\ weather_data' =
                        Append(weather_data,
                               [location |-> waypoint.address,
                                lat |-> waypoint.lat,
                                lon |-> waypoint.lon,
                                weather |-> r.weather])
                 /\ weather_calls' = weather_calls \o r.calls
    /\ UNCHANGED <<pc, data, gmaps, WEATHER_API_KEY, db, legs, waypoints,
                   unique_waypoints, selected, status, error, routing_calls,
                   query_logs>>

\* lines 287-306
LogAndReturn ==
    /\ pc = "weather"
    /\ Len(weather_data) = Len(selected)
    /\ \E inserted \in BOOLEAN :
          query_logs' =
              log_to_mongodb(query_logs,
                             [start_address |-> strip(get(data.start_address).chars),
                              end_address |-> strip(get(data.end_address).chars),
                              waypoint_count |-> Len(selected)],
                             inserted)
    /\ pc' = "done"
    /\ status' = 200
    /\ UNCHANGED <<data, gmaps, WEATHER_API_KEY, db, legs, waypoints,
                   unique_waypoints, selected, weather_data, error,
                   routing_calls, weather_calls>>

Next ==
    \/ Validate
    \/ GetDirections
    \/ Flatten
    \/ Dedup
    \/ Limit
    \/ FetchWeather
    \/ LogAndReturn

Spec == Init /\ [][Next]_vars

----------------------------------------------------------------------------
(* The waypoint reduction on its own: the handler right after the          *)
(* directions provider returned a route, up to the start of the weather    *)
(* loop, over longer routes.                                               *)

InitReduce ==
    /\ pc = "flatten"
    /\ data = [present |-> TRUE, start_address |-> Str(<<"a">>),
               end_address |-> Str(<<"a">>), extra |-> FALSE]
    /\ gmaps = TRUE
    /\ WEATHER_API_KEY = TRUE
    /\ db = TRUE
    /\ legs \in Routes(ReduceMaxLegs, ReduceMaxSteps)
    /\ waypoints = <<>>
    /\ unique_waypoints = <<>>
    /\ selected = <<>>
    /\ weather_data = <<>>
    /\ status = 0
    /\ error = ""
    /\ routing_calls = 1
    /\ weather_calls = <<>>
    /\ query_logs = <<>>

NextReduce ==
    \/ Flatten
    \/ Dedup
    \/ Limit

ReduceSpec == InitReduce /\ [][NextReduce]_vars

----------------------------------------------------------------------------
(* Vocabulary of the properties *)

\* the three lists are empty until the stage that builds them has run
Flattened == waypoints # <<>>
Deduped == unique_waypoints # <<>>
Limited == selected # <<>>

CeilDiv(a, b) == (a + b - 1) \div b

\* indices of the steps of leg l that became waypoint candidates, in order
StepIdx(l) ==
    LET FromLeg(w) == w.address.kind = "step" /\ w.address.leg = l
        ws == SelectSeq(waypoints, FromLeg)
    IN  [k \in 1..Len(ws) |-> ws[k].address.idx]

\* s is t with some elements left out
RECURSIVE IsSubseq(_, _)
IsSubseq(s, t) ==
    IF s = <<>> THEN TRUE
    ELSE IF t = <<>> THEN FALSE
    ELSE IF Head(s) = Head(t) THEN IsSubseq(Tail(s), Tail(t))
    ELSE IsSubseq(s, Tail(t))

Keys(ws) == {coord_key(ws[i]) : i \in 1..Len(ws)}

\* the elements of ws whose key does not occur earlier in ws
FirstOccurrences(ws) ==
    LET IsFirst(i) == \A j \in 1..(i - 1) : coord_key(ws[j]) # coord_key(ws[i])
        kept == SelectSeq([i \in 1..Len(ws) |-> i], IsFirst)
    IN  [k \in 1..Len(kept) |-> ws[kept[k]]]

LocationKey(loc) == <<round4(loc.lat), round4(loc.lng)>>

IsFailureMarker(w) == "error" \in DOMAIN w

IsObservation(w) == DOMAIN w = DOMAIN Observation(Payload)

AllSpaces(chars) == \A i \in 1..Len(chars) : chars[i] = " "

MissingOrBlank(f) == f.kind = "absent" \/ (f.kind = "str" /\ AllSpaces(f.chars))

EmptyBody(d) ==
    ~d.present
    \/ (~d.extra /\ d.start_address.kind = "absent"
                 /\ d.end_address.kind = "absent")

NoSideEffects == routing_calls = 0 /\ weather_calls = <<>> /\ query_logs = <<>>

----------------------------------------------------------------------------
(* Properties *)

\* C1: whenever the deduplicated list has more than 10 waypoints, the list
\* handed to the weather loop has at most 10.
C1_AtMostTen ==
    (Limited /\ Len(unique_waypoints) > 10) => Len(selected) <= 10

\* C2: every step of a leg with 1 to 5 steps becomes a waypoint candidate,
\* in order.
C2_ShortLegKeepsEveryStep ==
    Flattened =>
        \A l \in 1..Len(legs) :
            LET n == Len(legs[l].steps)
            IN  (1 <= n /\ n <= 5) => StepIdx(l) = [k \in 1..n |-> k - 1]

\* C3 as stated: a leg with N > 5 steps yields between ceil(N / interval)
\* and 5 samples, step 0 among them, interval being max(1, N div 5).
C3_BetweenCeilAndFive ==
    Flattened =>
        \A l \in 1..Len(legs) :
            LET n == Len(legs[l].steps)
                interval == Max(1, n \div 5)
            IN  n > 5 =>
                    /\ CeilDiv(n, interval) <= Len(StepIdx(l))
                    /\ Len(StepIdx(l)) <= 5
                    /\ \E k \in 1..Len(StepIdx(l)) : StepIdx(l)[k] = 0

\* C3 amended: a leg with N > 5 steps yields exactly ceil(N / interval)
\* samples, which is at least 5 and at most 9, step 0 among them.
C3_ExactlyCeil ==
    Flattened =>
        \A l \in 1..Len(legs) :
            LET n == Len(legs[l].steps)
                interval == Max(1, n \div 5)
            IN  n > 5 =>
                    /\ Len(StepIdx(l)) = CeilDiv(n, interval)
                    /\ 5 <= Len(StepIdx(l))
                    /\ Len(StepIdx(l)) <= 9
                    /\ \E k \in 1..Len(StepIdx(l)) : StepIdx(l)[k] = 0

C3_Witness ==
    /\ Flattened
    /\ \E l \in 1..Len(legs) :
          /\ Len(legs[l].steps) \div 5 = 2
          /\ Len(StepIdx(l)) = 5
    /\ \E l \in 1..Len(legs) : Len(StepIdx(l)) = 9

\* C4: when more than 10 deduplicated waypoints are limited, the result
\* starts with the first of them, ends with the last of them, and is a
\* subsequence of them.
C4_EndsKeptInOrder ==
    (Limited /\ Len(unique_waypoints) > 10) =>
        /\ selected[1] = unique_waypoints[1]
        /\ Last(selected) = Last(unique_waypoints)
        /\ IsSubseq(selected, unique_waypoints)

C4_Witness ==
    /\ Limited
    /\ Len(unique_waypoints) > 10
    /\ Len(selected) < Len(unique_waypoints)

\* C5: the deduplicated list has no two waypoints with the same key, has
\* every key of the candidate list, and consists of the first occurrence of
\* each key, in candidate order.
C5_FirstOccurrenceOfEachKey ==
    Deduped =>
        /\ \A i, j \in 1..Len(unique_waypoints) :
              i # j =>
                  coord_key(unique_waypoints[i]) # coord_key(unique_waypoints[j])
        /\ Keys(unique_waypoints) = Keys(waypoints)
        /\ unique_waypoints = FirstOccurrences(waypoints)

C5_Witness ==
    /\ Deduped
    /\ Len(unique_waypoints) >= 3
    /\ Len(unique_waypoints) + 2 <= Len(waypoints)
    /\ coord_key(Last(waypoints)) = coord_key(waypoints[1])

\* C6: once weather lookups were issued, the request ends with HTTP 200 and
\* one weather entry per waypoint, in waypoint order, carrying a failure
\* marker exactly where the lookup failed and an observation elsewhere.
C6_FailuresIsolated ==
    (pc = "done" /\ weather_calls # <<>>) =>
        /\ status = 200
        /\ Len(weather_data) = Len(selected)
        /\ Len(weather_calls) = Len(selected)
        /\ \A i \in 1..Len(selected) :
              /\ weather_data[i].location = selected[i].address
              /\ weather_data[i].lat = selected[i].lat
              /\ weather_data[i].lon = selected[i].lon
              /\ weather_calls[i].lat = selected[i].lat
              /\ weather_calls[i].lon = selected[i].lon
              /\ IF weather_calls[i].response = "ok"
                 THEN IsObservation(weather_data[i].weather)
                 ELSE IsFailureMarker(weather_data[i].weather)

C6_Witness ==
    /\ pc = "done"
    /\ Len(selected) >= 3
    /\ Failures(weather_calls) = 1
    /\ weather_calls[2].response = "malformed"

C8_NotConfiguredEverywhere ==
    ~WEATHER_API_KEY =>
        /\ weather_calls = <<>>
        /\ \A i \in 1..Len(weather_data) :
              weather_data[i].weather = NotConfigured
        /\ (pc = "done" /\ status = 200) =>
              Len(weather_data) = Len(selected)

C8_Witness ==
    /\ ~WEATHER_API_KEY
    /\ pc = "done"
    /\ status = 200
    /\ Len(weather_data) >= 3

\* C9: a route with a leg without steps is answered 200, that leg
\* contributing no waypoint candidate.
C9_ZeroStepLegAnswered ==
    (pc = "done" /\ \E l \in 1..Len(legs) : Len(legs[l].steps) = 0) =>
        /\ status = 200
        /\ \A l \in 1..Len(legs) :
              Len(legs[l].steps) = 0 => StepIdx(l) = <<>>

\* C10: the list handed to the weather loop has a waypoint with the key of
\* the first leg's start location and one with the key of the last leg's
\* end location.
C10_EndpointsRepresented ==
    Limited =>
        /\ LocationKey(legs[1].start_location) \in Keys(selected)
        /\ LocationKey(Last(legs).end_location) \in Keys(selected)

====
